---- MODULE Spec2Model ----
(***************************************************************************)
(* LEO satellite latency visualizer (src/src/App.jsx).                     *)
(*                                                                         *)
(* The App component is modelled as a state machine: its React state cells *)
(* (tleData, sats, groundNodes, stats, running), the interval timer owned  *)
(* by the simulation-loop effect, and the position of the interval         *)
(* callback between its two publications (setSats, setStats).              *)
(*                                                                         *)
(* Numbers.  Angles live on the lattice of multiples of 90 degrees, where  *)
(* sin, cos and atan2 are exact; radians are counted in units of pi/2.     *)
(* Distances are whole kilometres, latencies whole microseconds.  A        *)
(* JavaScript number is a record [kind, v]: kind "fin" with value v,       *)
(* "inf" (Infinity) or "nan" (NaN).                                        *)
(***************************************************************************)
EXTENDS Integers, Sequences, FiniteSets, TLC

(***************************************************************************)
(* Bounds of the model.                                                    *)
(***************************************************************************)
\* Ground nodes placed at mount (d3.range(20) in the source, scaled down).
NumNodes == 2
\* Records kept by tles.slice(0, 40) (40 in the source, scaled down).
TrackLimit == 2
\* Longest fetched text, in non-empty lines.
MaxLines == 7
\* Clock steps per tick interval of 2000 ms (the granularity of modelled time).
StepsPerInterval == 2
\* Tick identifiers are counted modulo TickMod.
TickMod == 3

(***************************************************************************)
(* Program constants.                                                      *)
(***************************************************************************)
LinesPerRecord == 3
LightSpeedKmPerS == 300000
MsPerSecond == 1000
\* R * pi / 2 with R = 6371 km: 10007.54 km, in whole kilometres.
QuarterArcKm == 10008

(***************************************************************************)
(* JavaScript numbers.                                                     *)
(***************************************************************************)
Fin(n) == [kind |-> "fin", v |-> n]
Infinity == [kind |-> "inf", v |-> 0]
NaN == [kind |-> "nan", v |-> 0]

\* a < b (false whenever NaN is involved; Infinity is above every finite).
JsLt(a, b) ==
    /\ a.kind # "nan" /\ b.kind # "nan"
    /\ \/ a.kind = "fin" /\ b.kind = "inf"
       \/ a.kind = "fin" /\ b.kind = "fin" /\ a.v < b.v

\* a <= b (false whenever NaN is involved).
JsLe(a, b) ==
    /\ a.kind # "nan" /\ b.kind # "nan"
    /\ (a = b \/ JsLt(a, b))

JsAdd(a, b) ==
    IF a.kind = "nan" \/ b.kind = "nan" THEN NaN
    ELSE IF a.kind = "inf" \/ b.kind = "inf" THEN Infinity
    ELSE Fin(a.v + b.v)

\* a - b for 0 <= b <= a: Infinity - Infinity is NaN.
JsSub(a, b) ==
    IF a.kind = "nan" \/ b.kind = "nan" THEN NaN
    ELSE IF a.kind = "inf" /\ b.kind = "inf" THEN NaN
    ELSE IF a.kind = "inf" THEN Infinity
    ELSE Fin(a.v - b.v)

\* a * (num / den) for a ratio 0 <= num/den: Infinity * 0 is NaN.
JsScale(a, num, den) ==
    IF a.kind = "nan" THEN NaN
    ELSE IF a.kind = "inf" THEN (IF num = 0 THEN NaN ELSE a)
    ELSE Fin((a.v * num) \div den)

\* a / n for a count n > 0.
JsDiv(a, n) ==
    IF a.kind = "fin" THEN Fin(a.v \div n) ELSE a

\* JavaScript's % keeps the sign of the dividend.
JsMod(a, n) == IF a >= 0 THEN a % n ELSE -((-a) % n)

(***************************************************************************)
(* Trigonometry on the 90-degree lattice.                                  *)
(***************************************************************************)
CosDeg(d) ==
    LET m == d % 360 IN
    IF m = 0 THEN 1 ELSE IF m = 180 THEN -1 ELSE 0

\* Math.atan2(y, x) for axis-aligned (y, x), in units of pi/2.
Atan2(y, x) ==
    IF y = 0 THEN (IF x < 0 THEN 2 ELSE 0)
    ELSE IF y > 0 THEN 1 ELSE -1

\* Math.sqrt on perfect squares.
Sqrt(n) == CHOOSE r \in 0..n : r * r = n

\* toDegrees(rad) = rad * 180 / pi, with rad in units of pi/2.
toDegrees(rad) == (rad * 180) \div 2

(***************************************************************************)
(* Coordinate projection (lines 56-61).                                    *)
(***************************************************************************)
\* Variant: the offset of half a turn only, without the full turn that
\* keeps the dividend of % positive.
NormalizeLonShort(lon) == JsMod(lon + 180, 360) - 180

\* Line 61: ((lon + 540) % 360) - 180, in whole degrees.
NormalizeLon(lon) == JsMod(lon + 540, 360) - 180

\* pos = <<x, y, z>>, gmst in units of pi/2.
Project(pos, gmst) ==
    LET x == pos[1]
        y == pos[2]
        z == pos[3]
        r == Sqrt(x * x + y * y)
        lon == toDegrees(Atan2(y, x)) - toDegrees(gmst)
        lat == toDegrees(Atan2(z, r))
    IN  [lat |-> lat, lon |-> NormalizeLon(lon)]

(***************************************************************************)
(* Distance helper (lines 89-100).  On the lattice                         *)
(*   2a = (1 - cos dLat) + cos lat1 * cos lat2 * (1 - cos dLon)            *)
(* is 0, 1 or 2, and 2R * atan2(sqrt a, sqrt(1 - a)) is 0, R*pi/2 or R*pi. *)
(***************************************************************************)
haversine(lat1, lon1, lat2, lon2) ==
    LET dLat == lat2 - lat1
        dLon == lon2 - lon1
        twoA == (1 - CosDeg(dLat)) + CosDeg(lat1) * CosDeg(lat2) * (1 - CosDeg(dLon))
    IN  QuarterArcKm * twoA

(***************************************************************************)
(* Nearest-satellite latency per ground node (lines 67-74).                *)
(***************************************************************************)
\* Variant: the forEach without the comparison of line 71: the distance
\* to the last satellite of the list.
MinDistanceLast(g, satList, i, minD) ==
    IF Len(satList) = 0 THEN minD
    ELSE Fin(haversine(g.lat, g.lon, satList[Len(satList)].lat,
                       satList[Len(satList)].lon))

RECURSIVE MinDistance(_, _, _, _)
\* The forEach of lines 69-72 from satellite i on, with running minimum minD.
MinDistance(g, satList, i, minD) ==
    IF i > Len(satList) THEN minD
    ELSE LET d == Fin(haversine(g.lat, g.lon, satList[i].lat, satList[i].lon))
         IN  MinDistance(g, satList, i + 1, IF JsLt(d, minD) THEN d ELSE minD)

\* (minD / 300000) * 1000 milliseconds, in microseconds: the factor of
\* 1000 microseconds per millisecond is taken out of the divisor.
LatencyOf(minD) == JsScale(minD, MsPerSecond, LightSpeedKmPerS \div 1000)

\* Variant: a tick without satellites hands no sample to the aggregator.
LatenciesCoveredOnly(nodes, satList) ==
    IF Len(satList) = 0 THEN <<>>
    ELSE [i \in 1..Len(nodes) |-> LatencyOf(MinDistance(nodes[i], satList, 1, Infinity))]

Latencies(nodes, satList) ==
    IF Len(nodes) = 0 THEN <<>>
    ELSE [i \in 1..Len(nodes) |-> LatencyOf(MinDistance(nodes[i], satList, 1, Infinity))]

(***************************************************************************)
(* Statistics (lines 76-82): d3.mean, d3.median, d3.quantileSorted.        *)
(***************************************************************************)
RECURSIVE Insert(_, _)
Insert(sorted, a) ==
    IF Len(sorted) = 0 THEN <<a>>
    ELSE IF JsLt(a, Head(sorted)) THEN <<a>> \o sorted
    ELSE <<Head(sorted)>> \o Insert(Tail(sorted), a)

RECURSIVE SortAscending(_)
\* [...latencies].sort((a, b) => a - b)
SortAscending(values) ==
    IF Len(values) = 0 THEN <<>>
    ELSE Insert(SortAscending(Tail(values)), Head(values))

RECURSIVE Sum(_)
Sum(values) ==
    IF Len(values) = 0 THEN Fin(0) ELSE JsAdd(Head(values), Sum(Tail(values)))

Mean(values) == JsDiv(Sum(values), Len(values))

\* d3.quantileSorted(values, pNum / pDen) for 0 < pNum / pDen < 1.
QuantileSorted(values, pNum, pDen) ==
    LET n == Len(values)
        scaled == (n - 1) * pNum
        i0 == scaled \div pDen
        value0 == values[i0 + 1]
        value1 == values[i0 + 2]
    IN  IF n < 2 THEN values[1]
        ELSE JsAdd(value0, JsScale(JsSub(value1, value0), scaled % pDen, pDen))

Median(values) == QuantileSorted(SortAscending(values), 1, 2)

Aggregate(latencyList) ==
    LET sorted == SortAscending(latencyList)
    IN  [mean |-> Mean(latencyList),
         median |-> Median(latencyList),
         p95 |-> QuantileSorted(sorted, 95, 100)]

ZeroStats == [mean |-> Fin(0), median |-> Fin(0), p95 |-> Fin(0)]

(***************************************************************************)
(* Ingestion of the fetched text (lines 19-25).                            *)
(***************************************************************************)
\* The record pushed at line 23 for loop index i (0-based) over `count`
\* non-empty lines: l1 and l2 say whether lines[i + 1], lines[i + 2] exist.
TleRecord(i, count) ==
    [name |-> i \div LinesPerRecord, l1 |-> i + 1 < count, l2 |-> i + 2 < count]

\* The loop of lines 22-24.
ParseTles(count) ==
    LET n == (count + LinesPerRecord - 1) \div LinesPerRecord
    IN  IF n = 0 THEN <<>>
        ELSE [k \in 1..n |-> TleRecord((k - 1) * LinesPerRecord, count)]

\* tles.slice(0, 40)
Slice(tles) ==
    IF Len(tles) <= TrackLimit THEN tles ELSE SubSeq(tles, 1, TrackLimit)

(***************************************************************************)
(* Inputs of a tick.                                                       *)
(***************************************************************************)
\* gstime(now), in units of pi/2.
GmstValues == {0, 1}
\* posVel.position: <<>> stands for `false` (no position), otherwise
\* <<x, y, z>> on the unit axes.
Absent == <<>>
InertialPositions == {<<1, 0, 0>>, <<-1, 0, 0>>}
PropagateResults == {Absent} \cup InertialPositions
\* Ground-node positions drawn at lines 33-34.
GroundPositions == {[lat |-> 0, lon |-> 0], [lat |-> 0, lon |-> -90]}

\* twoline2satrec(tle.l1, tle.l2) reads longstr1.substring and
\* longstr2.substring: a TypeError when either line is undefined.
Throws(tles) == \E i \in 1..Len(tles) : ~tles[i].l1 \/ ~tles[i].l2

\* Lines 49-63: map every record to its projected position or null, then
\* filter(Boolean).
SatPositions(results, gmst) ==
    LET all == [i \in 1..Len(results) |-> i]
        kept == SelectSeq(all, LAMBDA i : results[i] # Absent)
    IN  IF Len(kept) = 0 THEN <<>>
        ELSE [k \in 1..Len(kept) |-> Project(results[kept[k]], gmst)]

(***************************************************************************)
(* State.                                                                  *)
(***************************************************************************)
VARIABLES
    fetch,        \* the fetch of line 17: "unsent", "pending", "done", "failed"
    tleData,      \* useState([]) of line 8
    sats,         \* line 9, as last committed (what a render reads)
    groundNodes,  \* line 10
    stats,        \* line 11, as last committed
    running,      \* line 12
    timer,        \* steps since the live interval timer was armed, or NoTimer
    batched,      \* the build batches the state updates of a timer callback
    active,       \* interval callbacks that have begun and not returned
    outcome,      \* last interval callback: "none", "running", "done", "threw"
    tick,         \* identifier of the last dispatched tick, modulo TickMod
    gmst,         \* line 47 of the last tick
    propagated,   \* propagate() results of the last tick whose map returned
    satPositions, \* line 49, while the callback runs
    latencies,    \* line 67 of the last tick
    satsTick,     \* the tick that produced sats
    statsTick,    \* the tick that produced stats
    burst,        \* ticks dispatched since the clock last advanced
    winAge,       \* steps into the current interval since start()
    winPubs,      \* publications in the current interval since start()
    lastPubs,     \* publications in the last elapsed interval, NoWindow if none
    liveTimers,   \* intervals created by setInterval and not yet cleared
    probe         \* inputs and result of a pure function applied on its own

vars == <<fetch, tleData, sats, groundNodes, stats, running, timer, batched,
          active, outcome, tick, gmst, propagated, satPositions, latencies,
          satsTick, statsTick, burst, winAge, winPubs, lastPubs, liveTimers,
          probe>>

NoTimer == -1
NoWindow == -1
\* The counters burst and winPubs stop counting at MaxCount.
MaxCount == 2
Bump(n) == IF n < MaxCount THEN n + 1 ELSE n

NoProbe == [kind |-> "none"]

\* The component's state after construction (lines 8-12).
Constructed ==
    /\ liveTimers = 0
    /\ fetch = "unsent"
    /\ tleData = <<>>
    /\ sats = <<>>
    /\ groundNodes = <<>>
    /\ stats = ZeroStats
    /\ running = FALSE
    /\ timer = NoTimer
    /\ batched \in BOOLEAN
    /\ active = 0
    /\ outcome = "none"
    /\ tick = 0
    /\ gmst = 0
    /\ propagated = <<>>
    /\ satPositions = <<>>
    /\ latencies = <<>>
    /\ satsTick = 0
    /\ statsTick = 0
    /\ burst = 0
    /\ winAge = 0
    /\ winPubs = 0
    /\ lastPubs = NoWindow

Init ==
    /\ Constructed
    /\ probe = NoProbe

(***************************************************************************)
(* The simulation-loop effect (lines 42-86).                               *)
(***************************************************************************)
\* Variant: the effect body without the `!running` test of line 43.
SimEffectIgnoringRun(run, tles) ==
    IF Len(tles) = 0 THEN NoTimer ELSE 0

\* Variant: the effect body without the `tleData.length === 0` test of
\* line 43.
SimEffectIgnoringEmpty(run, tles) ==
    IF ~run THEN NoTimer ELSE 0

\* The effect body: no timer unless running with a non-empty tleData,
\* otherwise a fresh interval timer (age 0).
SimEffect(run, tles) ==
    IF ~run \/ Len(tles) = 0 THEN NoTimer ELSE 0

\* Variant: the effect without its dependency list, run after every render.
EffectRerunAlways(changed, old, run, tles) == SimEffect(run, tles)

\* A render whose dependencies [running, tleData, groundNodes] changed runs
\* the cleanup (clearInterval) and the effect body again; otherwise the
\* timer of the previous run stays as it is.
EffectRerun(changed, old, run, tles) ==
    IF changed THEN SimEffect(run, tles) ELSE old

\* Variant: the effect without its cleanup function (line 85).
TimersAfterEffectNoCleanup(changed, count, old, new) ==
    IF ~changed THEN count
    ELSE count + (IF new # NoTimer THEN 1 ELSE 0)

\* The intervals alive after a render: when the effect runs again its
\* cleanup clears the interval of the previous run (line 85) before the
\* body may create one (line 45).
TimersAfterEffect(changed, count, old, new) ==
    IF ~changed THEN count
    ELSE count - (IF old # NoTimer THEN 1 ELSE 0) + (IF new # NoTimer THEN 1 ELSE 0)

\* Variant: the placement effect without its empty dependency list: every
\* render places the nodes again, elsewhere.
NodesPlacedAgain(nodes) ==
    IF Len(nodes) = 0 THEN <<>>
    ELSE [i \in 1..Len(nodes) |-> [lat |-> nodes[i].lat, lon |-> -90 - nodes[i].lon]]

\* The ground nodes after a later render: the placement effect has an
\* empty dependency list (line 37) and nothing else calls setGroundNodes.
NodesAfterRender(nodes) == nodes

\* Variant: the click handler also resets the published snapshot.
SnapshotReset(snapshot) == <<<<>>, ZeroStats>>

\* The published <<sats, stats>> after a click on Start or Stop: the
\* handlers call setRunning and nothing else (lines 127, 140).
SnapshotAfterControl(snapshot) == snapshot

\* Variant: a one-shot timer (setTimeout in place of setInterval).
RearmNever(age) == NoTimer

\* setInterval re-arms the timer when it dispatches the callback.
Rearm(age) == 0

\* Variant: the callback is entered although another one has not returned.
CanDispatchAlways(n) == TRUE

\* One JavaScript thread: a task is dispatched only when no callback runs.
CanDispatch(n) == n = 0

\* The timer of the simulation loop has reached its interval.
Due == timer # NoTimer /\ timer >= StepsPerInterval

tickVars == <<outcome, tick, gmst, propagated, satPositions, latencies,
              satsTick, statsTick>>

(***************************************************************************)
(* Mount: the effects of lines 16-37 and the first run of the loop effect. *)
(***************************************************************************)
Mount ==
    /\ fetch = "unsent"
    /\ fetch' = "pending"
    /\ groundNodes' \in [1..NumNodes -> GroundPositions]
    /\ timer' = EffectRerun(TRUE, timer, running, tleData)
    /\ liveTimers' = TimersAfterEffect(TRUE, liveTimers, timer, timer')
    /\ UNCHANGED <<tleData, sats, stats, running, batched, active, burst,
                   winAge, winPubs, lastPubs, probe>>
    /\ UNCHANGED tickVars

\* The fetch resolves with a text of `count` non-empty lines (lines 19-25).
FetchResolve ==
    /\ fetch = "pending"
    /\ CanDispatch(active)
    /\ \E count \in 0..MaxLines :
          /\ tleData' = Slice(ParseTles(count))
          /\ timer' = EffectRerun(TRUE, timer, running, tleData')
    /\ liveTimers' = TimersAfterEffect(TRUE, liveTimers, timer, timer')
    /\ groundNodes' = NodesAfterRender(groundNodes)
    /\ fetch' = "done"
    /\ UNCHANGED <<sats, stats, running, batched, active, burst,
                   winAge, winPubs, lastPubs, probe>>
    /\ UNCHANGED tickVars

\* The fetch rejects (line 27).
FetchFail ==
    /\ fetch = "pending"
    /\ CanDispatch(active)
    /\ fetch' = "failed"
    /\ UNCHANGED <<tleData, sats, groundNodes, stats, running, timer, batched,
                   active, burst, winAge, winPubs, lastPubs, liveTimers, probe>>
    /\ UNCHANGED tickVars

(***************************************************************************)
(* The control surface (lines 127, 140).                                   *)
(***************************************************************************)
\* setRunning(v), the render it causes and the effect of that render.
SetRunning(v) ==
    /\ fetch # "unsent"
    /\ CanDispatch(active)
    /\ running' = v
    /\ timer' = EffectRerun(running # v, timer, v, tleData)
    /\ winAge' = IF running # v THEN 0 ELSE winAge
    /\ winPubs' = IF running # v THEN 0 ELSE winPubs
    /\ lastPubs' = IF running # v THEN NoWindow ELSE lastPubs
    /\ liveTimers' = TimersAfterEffect(running # v, liveTimers, timer, timer')
    /\ groundNodes' = IF running # v THEN NodesAfterRender(groundNodes)
                      ELSE groundNodes
    /\ sats' = SnapshotAfterControl(<<sats, stats>>)[1]
    /\ stats' = SnapshotAfterControl(<<sats, stats>>)[2]
    /\ UNCHANGED <<fetch, tleData, batched, active, burst, probe>>
    /\ UNCHANGED tickVars

Start == SetRunning(TRUE)

Stop == SetRunning(FALSE)

(***************************************************************************)
(* The interval callback (lines 45-83).                                    *)
(***************************************************************************)
\* Dispatch, lines 46-65: the clock and propagator are read, the positions
\* are mapped and setSats is called.  Without batching setSats renders
\* and commits at once; with batching the commit waits for the callback
\* to return.  A malformed record makes twoline2satrec throw out of the
\* callback before setSats.
TimerFire ==
    /\ Due
    /\ CanDispatch(active)
    /\ timer' = Rearm(timer)
    /\ tick' = (tick + 1) % TickMod
    /\ burst' = Bump(burst)
    /\ \E g \in GmstValues, results \in [1..Len(tleData) -> PropagateResults] :
          /\ gmst' = g
          /\ IF Throws(tleData)
             THEN /\ outcome' = "threw"
                  /\ propagated' = <<>>
                  /\ satPositions' = <<>>
                  /\ active' = active
                  /\ UNCHANGED <<sats, satsTick>>
             ELSE /\ outcome' = "running"
                  /\ propagated' = results
                  /\ satPositions' = SatPositions(results, g)
                  /\ active' = active + 1
                  /\ sats' = IF batched THEN sats ELSE satPositions'
                  /\ satsTick' = IF batched THEN satsTick ELSE tick'
    /\ latencies' = <<>>
    /\ UNCHANGED <<fetch, tleData, groundNodes, stats, statsTick, running,
                   batched, winAge, winPubs, lastPubs, liveTimers, probe>>

\* Lines 67-82 and the return of the callback: the latencies, the
\* statistics, setStats, and the commit of what is still pending.
TickPublish ==
    /\ active > 0
    /\ latencies' = Latencies(groundNodes, satPositions)
    /\ stats' = IF Len(latencies') > 0 THEN Aggregate(latencies') ELSE stats
    /\ statsTick' = IF Len(latencies') > 0 THEN tick ELSE statsTick
    /\ sats' = satPositions
    /\ satsTick' = tick
    /\ satPositions' = <<>>
    /\ active' = active - 1
    /\ outcome' = "done"
    /\ winPubs' = Bump(winPubs)
    /\ groundNodes' = NodesAfterRender(groundNodes)
    /\ UNCHANGED <<fetch, tleData, running, timer, batched, tick,
                   gmst, propagated, burst, winAge, lastPubs, liveTimers, probe>>

(***************************************************************************)
(* Time.                                                                   *)
(***************************************************************************)
\* The bookkeeping of one clock step: the interval since start() that
\* has just elapsed is closed and the next one begins.
Elapse ==
    /\ burst' = 0
    /\ winAge' = IF ~running THEN winAge
                 ELSE IF winAge = StepsPerInterval THEN 1 ELSE winAge + 1
    /\ winPubs' = IF running /\ winAge = StepsPerInterval THEN 0 ELSE winPubs
    /\ lastPubs' = IF running /\ winAge = StepsPerInterval THEN winPubs
                   ELSE lastPubs

\* One clock step between tasks; a due timer is dispatched first.
Tock ==
    /\ active = 0
    /\ ~Due
    /\ timer' = IF timer = NoTimer THEN NoTimer ELSE timer + 1
    /\ Elapse
    /\ UNCHANGED <<fetch, tleData, sats, groundNodes, stats, running, batched,
                   active, liveTimers, probe>>
    /\ UNCHANGED tickVars

\* One clock step while the callback is still running (a slow tick).
MaxLate == 2 * StepsPerInterval

SlowTock ==
    /\ active > 0
    /\ timer # NoTimer
    /\ timer < MaxLate
    /\ timer' = timer + 1
    /\ Elapse
    /\ UNCHANGED <<fetch, tleData, sats, groundNodes, stats, running, batched,
                   active, liveTimers, probe>>
    /\ UNCHANGED tickVars

Next ==
    \/ Mount
    \/ FetchResolve
    \/ FetchFail
    \/ Start
    \/ Stop
    \/ TimerFire
    \/ TickPublish
    \/ Tock

Spec == Init /\ [][Next]_vars

\* Ticks may be slower than the interval.
SlowNext == Next \/ SlowTock

SpecSlow == Init /\ [][SlowNext]_vars

\* The clock advances, a due timer is dispatched and a callback returns.
SpecFair ==
    /\ Spec
    /\ WF_vars(Tock)
    /\ WF_vars(TimerFire)
    /\ WF_vars(TickPublish)

(***************************************************************************)
(* The longitude of line 61 as a function of its inputs, in whole degrees. *)
(***************************************************************************)
\* toDegrees(Math.atan2(y, x)) of line 56: atan2 returns [-pi, pi].
RawLongitudes == -180..180
\* toDegrees(gmst) of line 56 for a sidereal angle of [0, 2 pi).
SiderealAngles == 0..359

InitProj ==
    /\ Constructed
    /\ probe \in [kind : {"in"}, raw : RawLongitudes, gmst : SiderealAngles]

\* Lines 56 and 61 applied to the inputs of the probe.
ProjectLon ==
    /\ probe.kind = "in"
    /\ probe' = [kind |-> "out", raw |-> probe.raw, gmst |-> probe.gmst,
                 lon |-> NormalizeLon(probe.raw - probe.gmst)]
    /\ UNCHANGED <<fetch, tleData, sats, groundNodes, stats, running, timer,
                   batched, active, burst, winAge, winPubs, lastPubs,
                   liveTimers>>
    /\ UNCHANGED tickVars

NextProj == ProjectLon

SpecProj == InitProj /\ [][NextProj]_vars

(***************************************************************************)
(* Properties.                                                             *)
(***************************************************************************)
published == <<sats, stats, satsTick, statsTick>>

\* C1 as stated: the controller starts Stopped; start() from Stopped moves
\* to Running and begins the periodic tick (a timer is scheduled); stop()
\* from Running moves to Stopped and leaves no timer; start() while Running
\* and stop() while Stopped change neither the running flag, nor the
\* timer, nor the published positions and statistics.
C1_StartAlwaysSchedules ==
    /\ ~running
    /\ [][/\ (Start /\ ~running) => (running' /\ timer' # NoTimer)
          /\ (Stop /\ running) => (~running' /\ timer' = NoTimer)
          /\ (Start /\ running) => UNCHANGED <<running, timer, published>>
          /\ (Stop /\ ~running) => UNCHANGED <<running, timer, published>>]_vars

\* C1 amended: as above, except that start() from Stopped schedules the
\* timer exactly when the tracked element set is non-empty.
C1_StartStop ==
    /\ ~running
    /\ [][/\ (Start /\ ~running) =>
               /\ running'
               /\ timer' = (IF Len(tleData) = 0 THEN NoTimer ELSE 0)
               /\ UNCHANGED published
          /\ (Stop /\ running) =>
               (~running' /\ timer' = NoTimer /\ UNCHANGED published)
          /\ (Start /\ running) => UNCHANGED <<running, timer, published>>
          /\ (Stop /\ ~running) => UNCHANGED <<running, timer, published>>]_vars

\* start() has acted on a Stopped controller whose element set is empty.
C1_Witness == running /\ Len(tleData) = 0 /\ timer = NoTimer /\ fetch = "pending"

\* C2: a tick is dispatched, and the published positions and statistics
\* change, only in steps that begin and end Running; while Stopped no
\* timer is scheduled.
C2_OnlyWhileRunning ==
    [][/\ ~running' => timer' = NoTimer
       /\ (tick' # tick \/ published' # published) => (running /\ running')]_vars

\* stop() has acted after a tick has published satellite positions.
C2_Witness == ~running /\ outcome = "done" /\ Len(sats) > 0

\* C3: the published positions and the published statistics are always
\* the product of the same tick.
C3_AtomicPublish == satsTick = statsTick

\* C4: after a tick without satellite positions the sample set handed to
\* the aggregator holds no sample (every node is "no coverage").
C4_NoCoverageExcluded ==
    (outcome = "done" /\ Len(sats) = 0) => Len(latencies) = 0

\* C5: a tick without satellite positions publishes the empty position
\* list and the zero statistics snapshot.
C5_ZeroSnapshot ==
    (outcome = "done" /\ Len(sats) = 0) => stats = ZeroStats

\* C6: every tick completes, whichever element sets yield no position; it
\* publishes the projected positions of exactly the element sets that
\* propagated, in element-set order, and the statistics of the same tick.
C6_FailureContained ==
    outcome \in {"done", "threw"} =>
        /\ outcome = "done"
        /\ Len(propagated) = Len(tleData)
        /\ sats = SatPositions(propagated, gmst)
        /\ Len(sats) = Cardinality({i \in 1..Len(propagated) : propagated[i] # Absent})
        /\ statsTick = tick
        /\ stats = Aggregate(latencies)

\* C7: every interval that elapses after start() while the controller
\* stays Running holds exactly one publication.
C7_OnePublicationPerInterval ==
    (running /\ lastPubs # NoWindow) => lastPubs = 1

\* C8: at most one interval callback is executing, a callback that has
\* begun is the one that is running, and no two ticks are dispatched
\* without the clock advancing in between (missed intervals do not queue).
C8_Serialized ==
    /\ active <= 1
    /\ (active = 1) <=> (outcome = "running")
    /\ burst <= 1

\* A slow tick: the callback is still running when the next tick is due.
C8_Witness == active = 1 /\ Due /\ timer = MaxLate

\* C9: at every moment a further tick is still to be dispatched, unless
\* the controller is Stopped or tracks no element set: while Running with
\* a non-empty tracked element set ticks occur infinitely often.
C9_KeepsTicking ==
    []<>(~running \/ Len(tleData) = 0 \/ burst > 0)

\* Still Running with a live timer after a tick in which every propagation
\* failed (no coverage).
C9_Witness ==
    /\ running /\ timer # NoTimer
    /\ outcome = "done" /\ Len(sats) = 0 /\ Len(propagated) > 0

\* C10: a tick that has computed its M satellite positions yields one
\* latency sample per ground node, in ground-node order, for every M.
C10_OneSamplePerNode ==
    outcome = "done" =>
        /\ Len(latencies) = Len(groundNodes)
        /\ Len(latencies) = NumNodes
        /\ \A i \in 1..Len(groundNodes) :
              latencies[i] = LatencyOf(MinDistance(groundNodes[i], sats, 1, Infinity))

\* A tick without satellite positions (M = 0) has produced its N samples.
C10_Witness == outcome = "done" /\ Len(sats) = 0 /\ Len(latencies) = NumNodes

\* The distance, in km, between ground node i and published satellite j.
NodeToSat(i, j) ==
    haversine(groundNodes[i].lat, groundNodes[i].lon, sats[j].lat, sats[j].lon)

\* C11: after a tick over a non-empty satellite list, the latency of every
\* ground node is built from the distance to some satellite of the list,
\* no satellite of the list is nearer, and the latency is that distance
\* divided by 300000 and multiplied by 1000 (latencies are in
\* microseconds: 300 * microseconds = 1000 * km).
C11_NearestSatellite ==
    (outcome = "done" /\ Len(sats) > 0) =>
        /\ Len(latencies) = Len(groundNodes)
        /\ \A i \in 1..Len(groundNodes) :
              /\ latencies[i].kind = "fin"
              /\ \E j \in 1..Len(sats) :
                    latencies[i].v * 300 = NodeToSat(i, j) * 1000
              /\ \A j \in 1..Len(sats) :
                    latencies[i].v * 300 <= NodeToSat(i, j) * 1000

\* A tick over two satellites where some node is nearer to the second
\* satellite than to the first: the running minimum is replaced.
C11_Witness ==
    /\ outcome = "done"
    /\ Len(sats) = 2
    /\ \E i \in 1..Len(groundNodes) : NodeToSat(i, 2) < NodeToSat(i, 1)

\* C12 as stated: every longitude produced by the normalisation of line 61
\* lies in (-180, 180], for every raw longitude in [-180, 180] and every
\* sidereal angle in [0, 360): -180 itself is never produced.
C12_LonOpenAtMinus180 ==
    probe.kind = "out" => (-180 < probe.lon /\ probe.lon <= 180)

\* C12, amended: every longitude produced by the normalisation of line 61
\* lies in [-180, 180) and differs from the corrected longitude by whole
\* turns: -180 is produced, 180 never.
C12_LonRange ==
    probe.kind = "out" =>
        /\ -180 <= probe.lon
        /\ probe.lon < 180
        /\ (probe.lon - (probe.raw - probe.gmst)) % 360 = 0

\* A corrected longitude of half a turn is published as -180.
C12_Witness ==
    probe.kind = "out" /\ probe.raw - probe.gmst = 180 /\ probe.lon = -180

\* C13: once the ground nodes have been placed, no step (start, stop,
\* tick, arrival or failure of the element set, clock) adds, removes or
\* changes a node, and the latencies of every completed tick are those of
\* that same list.
C13_NodesFixed ==
    [][/\ fetch # "unsent" => groundNodes' = groundNodes
       /\ outcome' = "done" => latencies' = Latencies(groundNodes', sats')]_vars

\* The element set has arrived, a run was started, ticked and was stopped,
\* and the placed nodes are there.
C13_Witness ==
    /\ fetch = "done"
    /\ ~running
    /\ outcome = "done"
    /\ Len(groundNodes) = NumNodes
    /\ Len(latencies) = NumNodes

\* C14: the statistics published by a tick over a non-empty latency list
\* satisfy min <= median <= max and min <= mean <= max, and p95 >= median
\* when the list holds at least two distinct values.
C14_StatsWithinRange ==
    (outcome = "done" /\ Len(latencies) > 0) =>
        LET sorted == SortAscending(latencies)
            lo == sorted[1]
            hi == sorted[Len(sorted)]
        IN  /\ JsLe(lo, stats.median) /\ JsLe(stats.median, hi)
            /\ JsLe(lo, stats.mean) /\ JsLe(stats.mean, hi)
            /\ lo # hi => JsLe(stats.median, stats.p95)

\* C15: a record whose element lines are missing is rejected at ingestion,
\* so every tracked record has both element lines, and no tick is
\* abandoned because of such a record.
C15_MalformedRejected ==
    /\ \A i \in 1..Len(tleData) : tleData[i].l1 /\ tleData[i].l2
    /\ outcome # "threw"

\* C16: at most one interval timer is live; one is live exactly when the
\* running flag is set and the tracked element set is non-empty; the
\* timer the model steps is the only live one (none is leaked).
C16_OneLiveTimer ==
    /\ liveTimers \in {0, 1}
    /\ (liveTimers = 1) <=> (running /\ Len(tleData) > 0)
    /\ (timer # NoTimer) <=> (liveTimers = 1)

\* A run that published was stopped and started again: the timer of the
\* new run is the one live timer and is counting.
C16_Witness ==
    /\ liveTimers = 1
    /\ running
    /\ outcome = "done"
    /\ winPubs = 0
    /\ timer > 0

\* C17: start() while the tracked element set is empty sets the running
\* flag, schedules no timer and publishes nothing; no tick is dispatched
\* and nothing is published while the set is empty; when a non-empty set
\* arrives while the flag is set the timer is armed by the arrival itself,
\* the flag untouched; and a tick is dispatched only when its timer has
\* counted one full interval.
C17_StartBeforeArrival ==
    [][/\ (~running /\ running' /\ Len(tleData) = 0) =>
              (timer' = NoTimer /\ tick' = tick /\ published' = published)
       /\ (running /\ Len(tleData) = 0) =>
              (tick' = tick /\ published' = published)
       /\ (running /\ Len(tleData) = 0 /\ Len(tleData') > 0) =>
              (running' /\ timer' = 0 /\ tick' = tick)
       /\ tick' # tick => timer = StepsPerInterval]_vars

\* start() came before the element set: an interval since start() has
\* passed without a publication, and the first tick after the arrival
\* has published.
C17_Witness ==
    /\ running
    /\ fetch = "done"
    /\ Len(tleData) > 0
    /\ ~Throws(tleData)
    /\ lastPubs = 0
    /\ outcome = "done"
    /\ winPubs = 1

\* C18: a step that changes the running flag (start() or stop()) leaves
\* the published positions and statistics as they are; while Stopped
\* they do not change; and they change only in a step of a tick of a run
\* (its dispatch or its return), so after a restart the snapshot of the
\* previous run stays until the first tick of the new run publishes.
C18_SnapshotSurvivesRestart ==
    [][/\ running' # running => (sats' = sats /\ stats' = stats)
       /\ ~running => (sats' = sats /\ stats' = stats)
       /\ (sats' # sats \/ stats' # stats) =>
              (running /\ (tick' # tick \/ active' < active))]_vars

\* Restarted after a run that published: no tick of the new run has
\* published yet and the positions and statistics of the previous run are
\* still the published ones.
C18_Witness ==
    /\ running
    /\ outcome = "done"
    /\ lastPubs = NoWindow
    /\ winPubs = 0
    /\ Len(sats) > 0
    /\ stats # ZeroStats
    /\ stats = Aggregate(latencies)

====
